---- MODULE Spec2Model ----
(***************************************************************************)
(* Model of the Keysight DC power analyser control programs:               *)
(*   src/psu.py      the interactive command-line program                  *)
(*   src/psu_gui.py  the four-panel PyQt control panel                     *)
(* Both drive one pyvisa instrument session.  The pyvisa library, the      *)
(* instrument and the operator are the environment: every library call     *)
(* may succeed or raise, every response may be numeric or not.             *)
(***************************************************************************)
EXTENDS Integers, Sequences, FiniteSets, TLC

VARIABLES
    prog,        \* which program runs: "cli" (psu.py) or "gui" (psu_gui.py)
    pc,          \* position of the main flow of control
    session,     \* the pyvisa resource: [state, timeout, term]
    inst,        \* is the name holding the resource bound (main's inst / self.instrument)
    chan,        \* CLI local: channel
    volt,        \* CLI local: voltage
    curr,        \* CLI local: current
    measured_v,  \* CLI local: measured_v
    limit_c,     \* CLI local: limit_c
    iter,        \* CLI: loop iterations started
    log,         \* bus operations issued since the last return to the prompt / idle event loop
    console,     \* messages shown to the operator since then (print / QMessageBox)
    nsent,       \* bus operations issued so far
    closeCalls,  \* calls of instrument.close() so far
    closed,      \* calls of instrument.close() that released the resource
    exitCode,    \* process exit status, -1 while running
    intAt,       \* CLI: where a KeyboardInterrupt arrived ("none" if none did)
    failedAt,    \* where startup failed ("none" if it did not)
    raised,      \* the exception the last step raised to a handler ("none" if none)
    stack,       \* GUI: handler frames, the running handler last (nested event loops below it)
    display,     \* GUI: text of each panel's output_label
    timers,      \* GUI: channels whose QTimer is active
    window,      \* GUI: "none" | "shown" | "closed"
    events       \* GUI: events dispatched so far

vars == <<prog, pc, session, inst, chan, volt, curr, measured_v, limit_c, iter,
          log, console, nsent,
          closeCalls, closed, exitCode, intAt, failedAt, raised, stack, display,
          timers, window, events>>

cliVars == <<chan, volt, curr, measured_v, limit_c, iter, intAt>>
guiVars == <<stack, display, timers, window, events>>

----------------------------------------------------------------------------
(* Bounds of the model *)

MaxIter == 2
MaxEvents == 2

(* Program constants *)

NumChannels == 4
TIMEOUT_MS == 5000
TIMER_MS == 1000

Channels == 1..NumChannels

----------------------------------------------------------------------------
(* Numbers and their text.  A float is held in thousandths. *)

\* what the operator may type at a prompt
ChannelInputs == {"1", "2", "3", "4", "abc"}
FloatInputs == {"6", "1.0", "abc"}
\* what the instrument may answer to a query (the "\n" terminator already removed)
Responses == {"3.000\r", "abc"}
\* values of a QDoubleSpinBox
SpinVolts == {0, 6000}
SpinAmps == {0, 1000}

\* int(s) returns (TRUE) or raises ValueError (FALSE)
IsIntText(s) == s \in {"1", "2", "3", "4"}

\* int(s), where it returns
ParseInt(s) ==
    CASE s = "1" -> 1
      [] s = "2" -> 2
      [] s = "3" -> 3
      [] s = "4" -> 4

\* s.strip()
Strip(s) ==
    CASE s = "3.000\r" -> "3.000"
      [] OTHER -> s

\* float(s) returns (TRUE) or raises ValueError (FALSE); float() skips blanks itself
IsFloatText(s) ==
    s \in {"6", "1.0", "3.000", "3.000\r", "0.0",
           "+0.00000000E+00", "+1.00000000E+00", "+6.00000000E+00"}

\* float(s), where it returns: the value in thousandths
ParseFloat(s) ==
    CASE s = "6" -> 6000
      [] s = "1.0" -> 1000
      [] s = "3.000" -> 3000
      [] s = "3.000\r" -> 3000
      [] s = "0.0" -> 0
      [] s = "+0.00000000E+00" -> 0
      [] s = "+1.00000000E+00" -> 1000
      [] s = "+6.00000000E+00" -> 6000

\* f"{channel}" of an int
IntStr(n) ==
    CASE n = 1 -> "1"
      [] n = 2 -> "2"
      [] n = 3 -> "3"
      [] n = 4 -> "4"
      [] OTHER -> "?"

\* f"{voltage}" of a float
FloatStr(x) ==
    CASE x = 0 -> "0.0"
      [] x = 1000 -> "1.0"
      [] x = 3000 -> "3.0"
      [] x = 6000 -> "6.0"
      [] OTHER -> "?"

\* f"{v:.3f}" of a float
Fixed3(x) ==
    CASE x = 0 -> "0.000"
      [] x = 1000 -> "1.000"
      [] x = 3000 -> "3.000"
      [] x = 6000 -> "6.000"
      [] OTHER -> "?"

\* f"{v:7.3f}" of a float: padded on the left to seven characters
Fixed7_3(x) ==
    CASE x = 0 -> "  0.000"
      [] x = 1000 -> "  1.000"
      [] x = 3000 -> "  3.000"
      [] x = 6000 -> "  6.000"
      [] OTHER -> "?"

----------------------------------------------------------------------------
(* The command strings, as the pieces of their f-strings *)

IDN == <<"*IDN?">>

\* the voltage is always written to channel 1, whatever channel was asked for
VoltCmd_channel1(v, c) == <<"VOLT ", FloatStr(v), ", (@", IntStr(1), ")">>
VoltCmd(v, c) == <<"VOLT ", FloatStr(v), ", (@", IntStr(c), ")">>
\* the second write repeats the voltage command with the current's value
CurrCmd_volt(a, c) == <<"VOLT ", FloatStr(a), ", (@", IntStr(c), ")">>
CurrCmd(a, c) == <<"CURR ", FloatStr(a), ", (@", IntStr(c), ")">>
\* the channel written into the string is a fixed one, not the caller's
CurrLimitQuery_channel1(c) == <<"CURR? (@", IntStr(1), ")">>
CurrLimitQuery(c) == <<"CURR? (@", IntStr(c), ")">>
\* the read-back asks for the measured current, not the voltage
CliMeasVolt_current(c) == <<"MEASure:CURRent? (@", IntStr(c), ")">>
\* psu.py spells the measurement queries in full
CliMeasVolt(c) == <<"MEASure:VOLTage? (@", IntStr(c), ")">>
CliMeasCurr(c) == <<"MEASure:CURRent? (@", IntStr(c), ")">>
\* psu_gui.py abbreviates them
GuiMeasVolt(c) == <<"MEAS:VOLT? (@", IntStr(c), ")">>
\* the second query asks for the programmed limit, not the measured current
GuiMeasCurr_limit(c) == <<"CURR? (@", IntStr(c), ")">>
GuiMeasCurr(c) == <<"MEAS:CURR? (@", IntStr(c), ")">>

\* the channel a command string addresses: the piece between "(@" and ")"
AddressOf(text) == IF Len(text) >= 3 THEN text[Len(text) - 1] ELSE ""

----------------------------------------------------------------------------
(* The session and the bus *)

NoSession == [state |-> "none", timeout |-> 0, term |-> ""]

\* one operation issued on the session: by is the iteration or event that issued it,
\* ch the channel of the code that issued it (0: none), res how the call ended,
\* resp the line a query read
Op(kind, text, by, ch, res, resp) ==
    [kind |-> kind, text |-> text, by |-> by, ch |-> ch, res |-> res, resp |-> resp]

\* a last clause that catches everything (except BaseException), Ctrl-C included
IsException_all(e) == TRUE

\* Python's exception classes: is e caught by "except Exception"
IsException(e) == e \in {"ValueError", "VisaIOError", "InvalidSession", "EOFError", "NameError"}

\* what a pyvisa call may raise; the operator may press Ctrl-C while it blocks
CallErrors == {"VisaIOError", "KeyboardInterrupt"}

----------------------------------------------------------------------------
(* psu.py *)

\* the loop with its "except ValueError" clause alone
LoopHandler_narrow(e) ==
    CASE e = "ValueError" -> <<"Invalid input. Please enter numeric values.">>
      [] OTHER -> <<>>

\* the except clauses of prompt_and_set_channel: the message printed, <<>> if e escapes
LoopHandler(e) ==
    CASE e = "ValueError" -> <<"Invalid input. Please enter numeric values.">>
      [] e = "VisaIOError" -> <<"VISA IO Error: ", e>>
      [] IsException(e) -> <<"Unexpected error: ", e>>
      [] OTHER -> <<>>

\* the except clauses of main: the message printed, <<>> if e escapes
MainHandler(e) ==
    CASE e = "KeyboardInterrupt" -> <<"Exiting on user interrupt.">>
      [] IsException(e) -> <<"Error: ", e>>
      [] OTHER -> <<>>

\* handlers that give up the instrument when a bus call fails
CliRaise_closing(e, inLoop, con) ==
    /\ session' = IF inLoop /\ e = "VisaIOError"
                  THEN [session EXCEPT !.state = "closed"]
                  ELSE session
    /\ raised' = e
    /\ IF inLoop /\ LoopHandler(e) # <<>>
       THEN /\ console' = Append(con, LoopHandler(e))
            /\ pc' = "prompt_channel"
            /\ exitCode' = exitCode
       ELSE /\ console' = Append(con, MainHandler(e))
            /\ pc' = "finally"
            /\ exitCode' = exitCode

\* exception e is raised, inside the prompt loop or before it; con is the console so far.
\* The handlers print and do nothing else: the instrument is left as it is
CliRaise(e, inLoop, con) ==
    /\ session' = session
    /\ raised' = e
    /\ IF inLoop /\ LoopHandler(e) # <<>>
       THEN /\ console' = Append(con, LoopHandler(e))
            /\ pc' = "prompt_channel"
            /\ exitCode' = exitCode
       ELSE IF MainHandler(e) # <<>>
       THEN /\ console' = Append(con, MainHandler(e))
            /\ pc' = "finally"
            /\ exitCode' = exitCode
       ELSE /\ console' = con
            /\ pc' = "done"
            /\ exitCode' = 1

\* where the exception of a failed startup step is recorded
NoteFailure(e, at) ==
    /\ failedAt' = IF e = "KeyboardInterrupt" THEN failedAt ELSE at
    /\ intAt' = IF e = "KeyboardInterrupt" THEN at ELSE intAt

CliBanner ==
    /\ prog = "cli" /\ pc = "main"
    /\ console' = Append(console, <<"--- Ben's CLI for PSU ---">>)
    /\ pc' = "rm"
    /\ raised' = "none"
    /\ UNCHANGED <<prog, session, inst, chan, volt, curr, measured_v, limit_c, iter,
                   log, nsent, closeCalls, closed, exitCode, intAt, failedAt>>
    /\ UNCHANGED guiVars

\* initialize_instrument: rm = pyvisa.ResourceManager()
CliResourceManager ==
    /\ prog = "cli" /\ pc = "rm"
    /\ \E o \in {"ok"} \cup CallErrors :
          IF o = "ok"
          THEN /\ pc' = "open"
               /\ UNCHANGED <<console, exitCode, failedAt, intAt, session>>
               /\ raised' = "none"
          ELSE /\ CliRaise(o, FALSE, console)
               /\ NoteFailure(o, "rm")
    /\ UNCHANGED <<prog, inst, chan, volt, curr, measured_v, limit_c, iter,
                   log, nsent, closeCalls, closed>>
    /\ UNCHANGED guiVars

\* initialize_instrument: instrument = rm.open_resource(address)
CliOpenResource ==
    /\ prog = "cli" /\ pc = "open"
    /\ \E o \in {"ok"} \cup CallErrors :
          IF o = "ok"
          THEN /\ session' = [session EXCEPT !.state = "open"]
               /\ raised' = "none"
               /\ pc' = "timeout"
               /\ UNCHANGED <<console, exitCode, failedAt, intAt>>
          ELSE /\ CliRaise(o, FALSE, console)
               /\ NoteFailure(o, "open")
    /\ UNCHANGED <<prog, inst, chan, volt, curr, measured_v, limit_c, iter,
                   log, nsent, closeCalls, closed>>
    /\ UNCHANGED guiVars

\* initialize_instrument: instrument.timeout = 5000
CliSetTimeout ==
    /\ prog = "cli" /\ pc = "timeout"
    /\ \E o \in {"ok"} \cup CallErrors :
          IF o = "ok"
          THEN /\ session' = [session EXCEPT !.timeout = TIMEOUT_MS]
               /\ raised' = "none"
               /\ pc' = "term"
               /\ UNCHANGED <<console, exitCode, failedAt, intAt>>
          ELSE /\ CliRaise(o, FALSE, console)
               /\ NoteFailure(o, "timeout")
    /\ UNCHANGED <<prog, inst, chan, volt, curr, measured_v, limit_c, iter,
                   log, nsent, closeCalls, closed>>
    /\ UNCHANGED guiVars

\* initialize_instrument: instrument.read_termination = '\n'
CliSetTermination ==
    /\ prog = "cli" /\ pc = "term"
    /\ \E o \in {"ok"} \cup CallErrors :
          IF o = "ok"
          THEN /\ session' = [session EXCEPT !.term = "\n"]
               /\ raised' = "none"
               /\ pc' = "idn"
               /\ UNCHANGED <<console, exitCode, failedAt, intAt>>
          ELSE /\ CliRaise(o, FALSE, console)
               /\ NoteFailure(o, "term")
    /\ UNCHANGED <<prog, inst, chan, volt, curr, measured_v, limit_c, iter,
                   log, nsent, closeCalls, closed>>
    /\ UNCHANGED guiVars

\* initialize_instrument: the *IDN? query and the return; main: inst = ...
CliIdentify ==
    /\ prog = "cli" /\ pc = "idn"
    /\ \E o \in {"ok"} \cup CallErrors :
          /\ log' = Append(log, Op("query", IDN, 0, 0, o, IF o = "ok" THEN "idn" ELSE ""))
          /\ nsent' = nsent + 1
          /\ IF o = "ok"
             THEN /\ console' = Append(console, <<"Connected to: ", "idn">>)
                  /\ inst' = "bound"
                  /\ pc' = "prompt_channel"
                  /\ UNCHANGED <<exitCode, failedAt, intAt, session>>
                  /\ raised' = "none"
             ELSE /\ CliRaise(o, FALSE, console)
                  /\ NoteFailure(o, "idn")
                  /\ UNCHANGED inst
    /\ UNCHANGED <<prog, chan, volt, curr, measured_v, limit_c, iter,
                   closeCalls, closed>>
    /\ UNCHANGED guiVars

\* what input() may do besides returning a line: Ctrl-C, or end of input
InputErrors == {"KeyboardInterrupt", "EOFError"}

\* prompt_and_set_channel: channel = int(input(...)), the first statement of an iteration
CliPromptChannel ==
    /\ prog = "cli" /\ pc = "prompt_channel"
    /\ \/ /\ iter < MaxIter
          /\ iter' = iter + 1
          /\ log' = <<>>
          /\ \/ \E s \in ChannelInputs :
                   IF IsIntText(s)
                   THEN /\ chan' = ParseInt(s)
                        /\ pc' = "prompt_voltage"
                        /\ console' = <<>>
                        /\ UNCHANGED <<exitCode, session>>
                        /\ raised' = "none"
                   ELSE /\ CliRaise("ValueError", TRUE, <<>>)
                        /\ UNCHANGED chan
             \/ /\ CliRaise("EOFError", TRUE, <<>>)
                /\ UNCHANGED chan
          /\ UNCHANGED intAt
       \/ /\ CliRaise("KeyboardInterrupt", TRUE, console)
          /\ intAt' = "prompt_channel"
          /\ UNCHANGED <<iter, log, chan>>
    /\ UNCHANGED <<prog, inst, volt, curr, measured_v, limit_c,
                   nsent, closeCalls, closed, failedAt>>
    /\ UNCHANGED guiVars

\* prompt_and_set_channel: voltage = float(input(...))
CliPromptVoltage ==
    /\ prog = "cli" /\ pc = "prompt_voltage"
    /\ \/ /\ \E s \in FloatInputs :
                IF IsFloatText(s)
                THEN /\ volt' = ParseFloat(s)
                     /\ pc' = "prompt_current"
                     /\ UNCHANGED <<console, exitCode, session>>
                     /\ raised' = "none"
                ELSE /\ CliRaise("ValueError", TRUE, console)
                     /\ UNCHANGED volt
          /\ UNCHANGED intAt
       \/ /\ \E e \in InputErrors :
                /\ CliRaise(e, TRUE, console)
                /\ intAt' = IF e = "KeyboardInterrupt" THEN "prompt_voltage" ELSE intAt
          /\ UNCHANGED volt
    /\ UNCHANGED <<prog, inst, chan, curr, measured_v, limit_c, iter, log,
                   nsent, closeCalls, closed, failedAt>>
    /\ UNCHANGED guiVars

\* prompt_and_set_channel: current = float(input(...))
CliPromptCurrent ==
    /\ prog = "cli" /\ pc = "prompt_current"
    /\ \/ /\ \E s \in FloatInputs :
                IF IsFloatText(s)
                THEN /\ curr' = ParseFloat(s)
                     /\ pc' = "set_voltage"
                     /\ UNCHANGED <<console, exitCode, session>>
                     /\ raised' = "none"
                ELSE /\ CliRaise("ValueError", TRUE, console)
                     /\ UNCHANGED curr
          /\ UNCHANGED intAt
       \/ /\ \E e \in InputErrors :
                /\ CliRaise(e, TRUE, console)
                /\ intAt' = IF e = "KeyboardInterrupt" THEN "prompt_current" ELSE intAt
          /\ UNCHANGED curr
    /\ UNCHANGED <<prog, inst, chan, volt, measured_v, limit_c, iter, log,
                   nsent, closeCalls, closed, failedAt>>
    /\ UNCHANGED guiVars

\* instrument.write(text) in the prompt loop: sent, then returns or raises
CliWrite(text, next) ==
    \E o \in {"ok"} \cup CallErrors :
       /\ log' = Append(log, Op("write", text, iter, chan, o, ""))
       /\ nsent' = nsent + 1
       /\ IF o = "ok"
          THEN /\ pc' = next
               /\ UNCHANGED <<console, exitCode, intAt, session>>
               /\ raised' = "none"
          ELSE /\ CliRaise(o, TRUE, console)
               /\ intAt' = IF o = "KeyboardInterrupt" THEN pc ELSE intAt

\* set_voltage(instrument, channel, voltage)
set_voltage ==
    /\ prog = "cli" /\ pc = "set_voltage"
    /\ CliWrite(VoltCmd(volt, chan), "set_current")
    /\ UNCHANGED <<prog, inst, chan, volt, curr, measured_v, limit_c, iter,
                   closeCalls, closed, failedAt>>
    /\ UNCHANGED guiVars

\* set_current(instrument, channel, current)
set_current ==
    /\ prog = "cli" /\ pc = "set_current"
    /\ CliWrite(CurrCmd(curr, chan), "read_voltage")
    /\ UNCHANGED <<prog, inst, chan, volt, curr, measured_v, limit_c, iter,
                   closeCalls, closed, failedAt>>
    /\ UNCHANGED guiVars

\* read_voltage(instrument, channel): the query, then float(response.strip())
read_voltage ==
    /\ prog = "cli" /\ pc = "read_voltage"
    /\ \/ \E r \in Responses :
             /\ log' = Append(log, Op("query", CliMeasVolt(chan), iter, chan, "ok", r))
             /\ nsent' = nsent + 1
             /\ IF IsFloatText(Strip(r))
                THEN /\ measured_v' = ParseFloat(Strip(r))
                     /\ pc' = "read_current_limit"
                     /\ UNCHANGED <<console, exitCode, session>>
                     /\ raised' = "none"
                ELSE /\ CliRaise("ValueError", TRUE, console)
                     /\ UNCHANGED measured_v
             /\ UNCHANGED intAt
       \/ \E e \in CallErrors :
             /\ log' = Append(log, Op("query", CliMeasVolt(chan), iter, chan, e, ""))
             /\ nsent' = nsent + 1
             /\ CliRaise(e, TRUE, console)
             /\ intAt' = IF e = "KeyboardInterrupt" THEN pc ELSE intAt
             /\ UNCHANGED measured_v
    /\ UNCHANGED <<prog, inst, chan, volt, curr, limit_c, iter,
                   closeCalls, closed, failedAt>>
    /\ UNCHANGED guiVars

\* read_current_limit(instrument, channel): the query, then float(response.strip())
read_current_limit ==
    /\ prog = "cli" /\ pc = "read_current_limit"
    /\ \/ \E r \in Responses :
             /\ log' = Append(log, Op("query", CurrLimitQuery(chan), iter, chan, "ok", r))
             /\ nsent' = nsent + 1
             /\ IF IsFloatText(Strip(r))
                THEN /\ limit_c' = ParseFloat(Strip(r))
                     /\ pc' = "report"
                     /\ UNCHANGED <<console, exitCode, session>>
                     /\ raised' = "none"
                ELSE /\ CliRaise("ValueError", TRUE, console)
                     /\ UNCHANGED limit_c
             /\ UNCHANGED intAt
       \/ \E e \in CallErrors :
             /\ log' = Append(log, Op("query", CurrLimitQuery(chan), iter, chan, e, ""))
             /\ nsent' = nsent + 1
             /\ CliRaise(e, TRUE, console)
             /\ intAt' = IF e = "KeyboardInterrupt" THEN pc ELSE intAt
             /\ UNCHANGED limit_c
    /\ UNCHANGED <<prog, inst, chan, volt, curr, measured_v, iter,
                   closeCalls, closed, failedAt>>
    /\ UNCHANGED guiVars

\* prompt_and_set_channel: the three print calls, then the next iteration
CliReport ==
    /\ prog = "cli" /\ pc = "report"
    /\ console' = console \o
          << <<"*** Settings applied to channel ", IntStr(chan), ":">>,
             <<"  Measured Voltage: ", Fixed3(measured_v), " V">>,
             <<"  Measured Current Limit: ", Fixed3(limit_c), " A">> >>
    /\ pc' = "prompt_channel"
    /\ raised' = "none"
    /\ UNCHANGED <<prog, session, inst, chan, volt, curr, measured_v, limit_c, iter,
                   log, nsent, closeCalls, closed, exitCode, intAt, failedAt>>
    /\ UNCHANGED guiVars

\* a close that tells the operator when it failed
close_instrument_reporting(o) ==
    /\ closeCalls' = closeCalls + 1
    /\ IF o = "ok"
       THEN /\ session' = [session EXCEPT !.state = "closed"]
            /\ closed' = IF session.state = "open" THEN closed + 1 ELSE closed
            /\ console' = Append(console, <<"Instrument connection closed.">>)
       ELSE /\ console' = Append(console, <<"Error closing instrument: ", o>>)
            /\ UNCHANGED <<session, closed>>

\* close_instrument(instrument): instrument.close(), then the print
close_instrument(o) ==
    /\ closeCalls' = closeCalls + 1
    /\ IF o = "ok"
       THEN /\ session' = [session EXCEPT !.state = "closed"]
            /\ closed' = IF session.state = "open" THEN closed + 1 ELSE closed
            /\ console' = Append(console, <<"Instrument connection closed.">>)
       ELSE UNCHANGED <<session, closed, console>>

\* the finally clause without its try/except: what close_instrument(inst) raises escapes
MainFinally_unguarded ==
    /\ prog = "cli" /\ pc = "finally"
    /\ IF inst = "unbound"
       THEN /\ raised' = "NameError"
            /\ exitCode' = 1
            /\ UNCHANGED <<session, closeCalls, closed, console>>
       ELSE \E o \in {"ok", "VisaIOError"} :
               /\ close_instrument(o)
               /\ raised' = IF o = "ok" THEN "none" ELSE o
               /\ exitCode' = IF o = "ok" THEN 0 ELSE 1
    /\ pc' = "done"
    /\ UNCHANGED <<prog, inst, chan, volt, curr, measured_v, limit_c, iter,
                   log, nsent, intAt, failedAt>>
    /\ UNCHANGED guiVars

\* main: the finally clause, try: close_instrument(inst) except: pass
MainFinally ==
    /\ prog = "cli" /\ pc = "finally"
    /\ IF inst = "unbound"
       THEN \* evaluating inst raises UnboundLocalError, which the bare except swallows
            UNCHANGED <<session, closeCalls, closed, console>>
       ELSE \E o \in {"ok", "VisaIOError"} : close_instrument(o)
    /\ pc' = "done"
    /\ exitCode' = 0
    /\ raised' = "none"
    /\ UNCHANGED <<prog, inst, chan, volt, curr, measured_v, limit_c, iter,
                   log, nsent, intAt, failedAt>>
    /\ UNCHANGED guiVars

CliNext ==
    \/ CliBanner
    \/ CliResourceManager
    \/ CliOpenResource
    \/ CliSetTimeout
    \/ CliSetTermination
    \/ CliIdentify
    \/ CliPromptChannel
    \/ CliPromptVoltage
    \/ CliPromptCurrent
    \/ set_voltage
    \/ set_current
    \/ read_voltage
    \/ read_current_limit
    \/ CliReport
    \/ MainFinally

----------------------------------------------------------------------------
(* psu_gui.py *)

InitialText == <<"Measured:\n--- V\n--- A\n\nLimit:\n--- A">>
MeasuredText(v, c, limit) ==
    <<"Measured:\n", Fixed7_3(v), " V\n", Fixed7_3(c), " A\n\nLimit:\n", Fixed7_3(limit), " A">>
ReadErrorText(e) == <<"Read error:\n", e>>

\* a running handler: apply_settings (kind "apply") or update_readings (kind "tick")
\* of panel ch, started by event hid; wait: a bus call of it has not returned yet
Frame(hid, kind, ch, at, voltage, current) ==
    [hid |-> hid, kind |-> kind, ch |-> ch, pc |-> at, wait |-> FALSE,
     voltage |-> voltage, current |-> current, v |-> 0, c |-> 0]

Top == stack[Len(stack)]
Pop == SubSeq(stack, 1, Len(stack) - 1)
SetTop(f) == [stack EXCEPT ![Len(stack)] = f]

\* main: app = QApplication(sys.argv); gui = PowerSupplyGUI()
GuiMain ==
    /\ prog = "gui" /\ pc = "main"
    /\ pc' = "gui_rm"
    /\ raised' = "none"
    /\ UNCHANGED <<prog, session, inst, log, console, nsent, closeCalls, closed,
                   exitCode, failedAt>>
    /\ UNCHANGED cliVars
    /\ UNCHANGED guiVars

\* the except clause without its sys.exit(1): the dialog, then __init__ goes on
GuiConnectionError_continue(e, at) ==
    /\ console' = Append(console, <<"Connection Error", "Could not connect to instrument:\n", e>>)
    /\ failedAt' = at
    /\ raised' = e
    /\ pc' = "gui_panels"
    /\ exitCode' = exitCode

\* PowerSupplyGUI.__init__: the except clause, QMessageBox.critical and sys.exit(1)
GuiConnectionError(e, at) ==
    /\ console' = Append(console, <<"Connection Error", "Could not connect to instrument:\n", e>>)
    /\ failedAt' = at
    /\ raised' = e
    /\ pc' = "done"
    /\ exitCode' = 1

\* PowerSupplyGUI.__init__: self.rm = pyvisa.ResourceManager()
GuiResourceManager ==
    /\ prog = "gui" /\ pc = "gui_rm"
    /\ \E o \in {"ok", "VisaIOError"} :
          IF o = "ok"
          THEN /\ pc' = "gui_open"
               /\ raised' = "none"
               /\ UNCHANGED <<console, failedAt, exitCode>>
          ELSE GuiConnectionError(o, "rm")
    /\ UNCHANGED <<prog, session, inst, log, nsent, closeCalls, closed>>
    /\ UNCHANGED cliVars
    /\ UNCHANGED guiVars

\* PowerSupplyGUI.__init__: self.instrument = self.rm.open_resource(GPIB_ADDRESS)
GuiOpenResource ==
    /\ prog = "gui" /\ pc = "gui_open"
    /\ \E o \in {"ok", "VisaIOError"} :
          IF o = "ok"
          THEN /\ session' = [session EXCEPT !.state = "open"]
               /\ raised' = "none"
               /\ inst' = "bound"
               /\ pc' = "gui_timeout"
               /\ UNCHANGED <<console, failedAt, exitCode>>
          ELSE /\ GuiConnectionError(o, "open")
               /\ UNCHANGED <<session, inst>>
    /\ UNCHANGED <<prog, log, nsent, closeCalls, closed>>
    /\ UNCHANGED cliVars
    /\ UNCHANGED guiVars

\* PowerSupplyGUI.__init__: self.instrument.timeout = 5000
GuiSetTimeout ==
    /\ prog = "gui" /\ pc = "gui_timeout"
    /\ \E o \in {"ok", "VisaIOError"} :
          IF o = "ok"
          THEN /\ session' = [session EXCEPT !.timeout = TIMEOUT_MS]
               /\ raised' = "none"
               /\ pc' = "gui_term"
               /\ UNCHANGED <<console, failedAt, exitCode>>
          ELSE /\ GuiConnectionError(o, "timeout")
               /\ UNCHANGED session
    /\ UNCHANGED <<prog, inst, log, nsent, closeCalls, closed>>
    /\ UNCHANGED cliVars
    /\ UNCHANGED guiVars

\* PowerSupplyGUI.__init__: self.instrument.read_termination = '\n'
GuiSetTermination ==
    /\ prog = "gui" /\ pc = "gui_term"
    /\ \E o \in {"ok", "VisaIOError"} :
          IF o = "ok"
          THEN /\ session' = [session EXCEPT !.term = "\n"]
               /\ raised' = "none"
               /\ pc' = "gui_panels"
               /\ UNCHANGED <<console, failedAt, exitCode>>
          ELSE /\ GuiConnectionError(o, "term")
               /\ UNCHANGED session
    /\ UNCHANGED <<prog, inst, log, nsent, closeCalls, closed>>
    /\ UNCHANGED cliVars
    /\ UNCHANGED guiVars

\* PowerSupplyGUI.__init__: the four ChannelControl panels, each starting its timer;
\* showMaximized(); main: gui.show(); app.exec()
GuiPanels ==
    /\ prog = "gui" /\ pc = "gui_panels"
    /\ display' = [c \in Channels |-> InitialText]
    /\ timers' = Channels
    /\ window' = "shown"
    /\ pc' = "exec"
    /\ raised' = "none"
    /\ UNCHANGED <<prog, session, inst, log, console, nsent, closeCalls, closed,
                   exitCode, failedAt, stack, events>>
    /\ UNCHANGED cliVars

\* events delivered whenever they are due, as if each timer ran on a thread of its own
CanDispatch_threads == TRUE

\* a modal dialog that holds back the timers until it is dismissed
CanDispatch_blocked == stack = <<>>

\* The Qt event loop is one thread: it delivers the next event when no handler runs,
\* or when the running handler itself runs an event loop (the modal QMessageBox)
CanDispatch == IF stack = <<>> THEN TRUE ELSE Top.pc = "dialog"

\* a handler is started for event hid
Dispatch(f) ==
    /\ events' = events + 1
    /\ stack' = Append(stack, f)
    /\ log' = IF stack = <<>> THEN <<>> ELSE log
    /\ console' = IF stack = <<>> THEN <<>> ELSE console
    /\ raised' = "none"

\* QTimer.timeout of panel i: update_readings is called
GuiTimerTick ==
    /\ prog = "gui" /\ pc = "exec"
    /\ CanDispatch
    /\ events < MaxEvents
    /\ \E i \in timers : Dispatch(Frame(events + 1, "tick", i, "q_volt", 0, 0))
    /\ UNCHANGED <<prog, pc, session, inst, nsent, closeCalls, closed, exitCode,
                   failedAt, display, timers, window>>
    /\ UNCHANGED cliVars

\* set_button.clicked of panel i: apply_settings is called and reads the two spin boxes
GuiSetClicked ==
    /\ prog = "gui" /\ pc = "exec"
    /\ window = "shown"
    /\ stack = <<>>
    /\ events < MaxEvents
    /\ \E i \in Channels, voltage \in SpinVolts, current \in SpinAmps :
          Dispatch(Frame(events + 1, "apply", i, "w_volt", voltage, current))
    /\ UNCHANGED <<prog, pc, session, inst, nsent, closeCalls, closed, exitCode,
                   failedAt, display, timers, window>>
    /\ UNCHANGED cliVars

\* the bus call a handler makes at each of its positions
FrameOp(f) ==
    CASE f.pc = "w_volt" -> [kind |-> "write", text |-> VoltCmd(f.voltage, f.ch)]
      [] f.pc = "w_curr" -> [kind |-> "write", text |-> CurrCmd(f.current, f.ch)]
      [] f.pc = "q_volt" -> [kind |-> "query", text |-> GuiMeasVolt(f.ch)]
      [] f.pc = "q_curr" -> [kind |-> "query", text |-> GuiMeasCurr(f.ch)]
      [] f.pc = "q_limit" -> [kind |-> "query", text |-> CurrLimitQuery(f.ch)]

\* apply_settings: except Exception: QMessageBox.critical(...), a modal dialog
ApplyExcept(f, e) ==
    /\ console' = Append(console, <<"Error", "CH", IntStr(f.ch), " set error: ", e>>)
    /\ stack' = SetTop([f EXCEPT !.pc = "dialog", !.wait = FALSE])
    /\ raised' = e
    /\ UNCHANGED display

\* a read error that is written to the labels of all four panels
ReadExcept_everywhere(f, e) ==
    /\ display' = [c \in Channels |-> ReadErrorText(e)]
    /\ stack' = Pop
    /\ raised' = e
    /\ UNCHANGED console

\* update_readings with a retry: after an exception the same query is sent again
ReadExcept_retry(f, e) ==
    /\ stack' = SetTop([f EXCEPT !.wait = FALSE])
    /\ raised' = e
    /\ UNCHANGED <<console, display>>

\* update_readings: except Exception: the label shows the error; the handler returns
ReadExcept(f, e) ==
    /\ display' = [display EXCEPT ![f.ch] = ReadErrorText(e)]
    /\ stack' = Pop
    /\ raised' = e
    /\ UNCHANGED console

\* the handler's try blocks: an exception in a write reaches apply_settings' except,
\* an exception in a query reaches update_readings' own except
GuiRaise(f, e) ==
    IF FrameOp(f).kind = "write" THEN ApplyExcept(f, e) ELSE ReadExcept(f, e)

\* the running handler calls instrument.write / instrument.query
GuiIssue ==
    /\ prog = "gui" /\ pc = "exec"
    /\ stack # <<>> /\ Top.pc # "dialog" /\ ~Top.wait
    /\ nsent' = nsent + 1
    /\ IF session.state = "open"
       THEN /\ log' = Append(log, Op(FrameOp(Top).kind, FrameOp(Top).text, Top.hid, Top.ch, "pending", ""))
            /\ stack' = SetTop([Top EXCEPT !.wait = TRUE])
            /\ raised' = "none"
            /\ UNCHANGED <<console, display>>
       ELSE \* pyvisa refuses a closed resource: nothing is sent
            /\ log' = Append(log, Op(FrameOp(Top).kind, FrameOp(Top).text, Top.hid, Top.ch, "InvalidSession", ""))
            /\ GuiRaise(Top, "InvalidSession")
    /\ UNCHANGED <<prog, pc, session, inst, closeCalls, closed, exitCode, failedAt,
                   timers, window, events>>
    /\ UNCHANGED cliVars

\* the call returned: what the handler does next
GuiReturned(f, r) ==
    CASE f.pc = "w_volt" ->
            /\ stack' = SetTop([f EXCEPT !.pc = "w_curr", !.wait = FALSE])
            /\ raised' = "none"
            /\ UNCHANGED <<console, display>>
      [] f.pc = "w_curr" ->
            \* self.update_readings()
            /\ stack' = SetTop([f EXCEPT !.pc = "q_volt", !.wait = FALSE])
            /\ raised' = "none"
            /\ UNCHANGED <<console, display>>
      [] f.pc = "q_volt" ->
            IF IsFloatText(Strip(r))
            THEN /\ stack' = SetTop([f EXCEPT !.pc = "q_curr", !.wait = FALSE,
                                              !.v = ParseFloat(Strip(r))])
                 /\ raised' = "none"
                 /\ UNCHANGED <<console, display>>
            ELSE GuiRaise(f, "ValueError")
      [] f.pc = "q_curr" ->
            IF IsFloatText(Strip(r))
            THEN /\ stack' = SetTop([f EXCEPT !.pc = "q_limit", !.wait = FALSE,
                                              !.c = ParseFloat(Strip(r))])
                 /\ raised' = "none"
                 /\ UNCHANGED <<console, display>>
            ELSE GuiRaise(f, "ValueError")
      [] f.pc = "q_limit" ->
            IF IsFloatText(Strip(r))
            THEN /\ display' = [display EXCEPT ![f.ch] =
                                   MeasuredText(f.v, f.c, ParseFloat(Strip(r)))]
                 /\ stack' = Pop
                 /\ raised' = "none"
                 /\ UNCHANGED console
            ELSE GuiRaise(f, "ValueError")

\* the pending bus call of the running handler returns or raises
GuiComplete ==
    /\ prog = "gui" /\ pc = "exec"
    /\ stack # <<>> /\ Top.wait
    /\ \/ IF FrameOp(Top).kind = "write"
          THEN /\ log' = [log EXCEPT ![Len(log)].res = "ok"]
               /\ GuiReturned(Top, "")
          ELSE \E r \in Responses :
                  /\ log' = [log EXCEPT ![Len(log)].res = "ok", ![Len(log)].resp = r]
                  /\ GuiReturned(Top, r)
       \/ /\ log' = [log EXCEPT ![Len(log)].res = "VisaIOError"]
          /\ GuiRaise(Top, "VisaIOError")
    /\ UNCHANGED <<prog, pc, session, inst, nsent, closeCalls, closed, exitCode,
                   failedAt, timers, window, events>>
    /\ UNCHANGED cliVars

\* the operator dismisses the error dialog: apply_settings returns
GuiDialogDismiss ==
    /\ prog = "gui" /\ pc = "exec"
    /\ stack # <<>> /\ Top.pc = "dialog"
    /\ stack' = Pop
    /\ raised' = "none"
    /\ UNCHANGED <<prog, pc, session, inst, log, console, nsent, closeCalls, closed,
                   exitCode, failedAt, display, timers, window, events>>
    /\ UNCHANGED cliVars

\* PowerSupplyGUI.closeEvent: try: self.instrument.close() except: pass; event.accept()
closeEvent ==
    /\ prog = "gui" /\ pc = "exec"
    /\ window = "shown"
    /\ stack = <<>>
    /\ closeCalls' = closeCalls + 1
    /\ \E o \in {"ok", "VisaIOError"} :
          IF o = "ok"
          THEN /\ session' = [session EXCEPT !.state = "closed"]
               /\ closed' = IF session.state = "open" THEN closed + 1 ELSE closed
          ELSE UNCHANGED <<session, closed>>
    /\ window' = "closed"
    /\ raised' = "none"
    /\ UNCHANGED <<prog, pc, inst, log, console, nsent, exitCode, failedAt,
                   stack, display, timers, events>>
    /\ UNCHANGED cliVars

\* the last window is closed: app.exec() returns and main calls sys.exit with its result
GuiQuit ==
    /\ prog = "gui" /\ pc = "exec"
    /\ window = "closed"
    /\ stack = <<>>
    /\ pc' = "done"
    /\ exitCode' = 0
    /\ raised' = "none"
    /\ UNCHANGED <<prog, session, inst, log, console, nsent, closeCalls, closed,
                   failedAt>>
    /\ UNCHANGED cliVars
    /\ UNCHANGED guiVars

GuiNext ==
    \/ GuiMain
    \/ GuiResourceManager
    \/ GuiOpenResource
    \/ GuiSetTimeout
    \/ GuiSetTermination
    \/ GuiPanels
    \/ GuiTimerTick
    \/ GuiSetClicked
    \/ GuiIssue
    \/ GuiComplete
    \/ GuiDialogDismiss
    \/ closeEvent
    \/ GuiQuit

----------------------------------------------------------------------------

Init ==
    /\ prog \in {"cli", "gui"}
    /\ pc = "main"
    /\ session = NoSession
    /\ inst = "unbound"
    /\ chan = 0 /\ volt = 0 /\ curr = 0 /\ measured_v = 0 /\ limit_c = 0
    /\ iter = 0
    /\ log = <<>>
    /\ console = <<>>
    /\ nsent = 0
    /\ closeCalls = 0
    /\ closed = 0
    /\ exitCode = -1
    /\ intAt = "none"
    /\ failedAt = "none"
    /\ raised = "none"
    /\ stack = <<>>
    /\ display = [c \in Channels |-> <<>>]
    /\ timers = {}
    /\ window = "none"
    /\ events = 0

Next == CliNext \/ GuiNext

Spec == Init /\ [][Next]_vars

----------------------------------------------------------------------------
(* The close paths on their own: main's finally clause and closeEvent, run on a     *)
(* session in any state (never opened, open, already closed), and run again.        *)

MaxCloses == 3

InitClose ==
    /\ prog \in {"cli", "gui"}
    /\ inst \in {"unbound", "bound"}
    /\ prog = "gui" => inst = "bound"
    /\ \E st \in {"none", "open", "closed"} :
          /\ inst = "unbound" => st \in {"none", "open"}
          /\ inst = "bound" => st \in {"open", "closed"}
          /\ session = IF inst = "bound"
                       THEN [state |-> st, timeout |-> TIMEOUT_MS, term |-> "\n"]
                       ELSE [NoSession EXCEPT !.state = st]
    /\ pc = IF prog = "cli" THEN "finally" ELSE "exec"
    /\ chan = 0 /\ volt = 0 /\ curr = 0 /\ measured_v = 0 /\ limit_c = 0
    /\ iter \in 0..MaxIter
    /\ iter > 0 => (prog = "cli" /\ inst = "bound")
    /\ log = <<>>
    /\ console = <<>>
    /\ nsent = 0
    /\ closeCalls = 0
    /\ closed = 0
    /\ exitCode = -1
    /\ intAt = "none"
    /\ failedAt = "none"
    /\ raised = "none"
    /\ stack = <<>>
    /\ display = [c \in Channels |-> IF prog = "gui" THEN InitialText ELSE <<>>]
    /\ timers = IF prog = "gui" THEN Channels ELSE {}
    /\ window = IF prog = "gui" THEN "shown" ELSE "none"
    /\ events = 0

\* the close path is run once more
CloseAgain ==
    /\ closeCalls < MaxCloses
    /\ \/ /\ prog = "cli" /\ pc = "done"
          /\ pc' = "finally"
          /\ UNCHANGED window
       \/ /\ prog = "gui" /\ window = "closed"
          /\ window' = "shown"
          /\ UNCHANGED pc
    /\ UNCHANGED <<prog, session, inst, log, console, nsent, closeCalls, closed,
                   exitCode, failedAt, raised, stack, display, timers, events>>
    /\ UNCHANGED cliVars

NextClose == MainFinally \/ closeEvent \/ CloseAgain

SpecClose == InitClose /\ [][NextClose]_vars

----------------------------------------------------------------------------
(* The four bus functions of psu.py against an echo device: an instrument   *)
(* that keeps, per channel, the voltage and the current limit last written  *)
(* to it and answers each query with the value it keeps.  What the device   *)
(* holds is a function of the commands it has received, i.e. of the log.    *)

\* interleaved commands to other channels, at most
MaxOther == 2

\* set points used with the echo device, in thousandths
EchoValues == {1000, 6000}

\* the device reads a number of a command
DeviceNumber(s) ==
    CASE s = "0.0" -> 0
      [] s = "1.0" -> 1000
      [] s = "3.0" -> 3000
      [] s = "6.0" -> 6000

\* the device reads the channel list of a command
DeviceChannel(text) ==
    CASE AddressOf(text) = "1" -> 1
      [] AddressOf(text) = "2" -> 2
      [] AddressOf(text) = "3" -> 3
      [] AddressOf(text) = "4" -> 4

\* the device writes a number of a response
DeviceText(x) ==
    CASE x = 0 -> "+0.00000000E+00"
      [] x = 1000 -> "+1.00000000E+00"
      [] x = 6000 -> "+6.00000000E+00"

\* the device after power-on: every set point is zero
DeviceInit == [vset |-> [c \in Channels |-> 0], ilim |-> [c \in Channels |-> 0]]

\* the device executes a command that is not a query
DeviceWrite(dev, text) ==
    CASE text[1] = "VOLT " -> [dev EXCEPT !.vset[DeviceChannel(text)] = DeviceNumber(text[2])]
      [] text[1] = "CURR " -> [dev EXCEPT !.ilim[DeviceChannel(text)] = DeviceNumber(text[2])]
      [] OTHER -> dev

\* the device after the commands of q
RECURSIVE DeviceAfter(_)
DeviceAfter(q) ==
    IF q = <<>> THEN DeviceInit
    ELSE LET o == q[Len(q)]
             before == DeviceAfter(SubSeq(q, 1, Len(q) - 1))
         IN  IF o.kind = "write" THEN DeviceWrite(before, o.text) ELSE before

\* the device answers a query: the set point it keeps; no load is connected
DeviceQuery(dev, text) ==
    CASE text[1] \in {"MEASure:VOLTage? (@", "MEAS:VOLT? (@"} ->
            DeviceText(dev.vset[DeviceChannel(text)])
      [] text[1] \in {"MEASure:CURRent? (@", "MEAS:CURR? (@"} -> DeviceText(0)
      [] text[1] = "CURR? (@" -> DeviceText(dev.ilim[DeviceChannel(text)])
      [] OTHER -> ""

\* the session is open; channel, voltage and current are the caller's arguments
InitEcho ==
    /\ prog = "cli"
    /\ pc = "set_voltage"
    /\ session = [state |-> "open", timeout |-> TIMEOUT_MS, term |-> "\n"]
    /\ inst = "bound"
    /\ chan \in Channels /\ volt \in EchoValues /\ curr \in EchoValues
    /\ measured_v = 0 /\ limit_c = 0
    /\ iter = 1
    /\ log = <<>>
    /\ console = <<>>
    /\ nsent = 1
    /\ closeCalls = 0
    /\ closed = 0
    /\ exitCode = -1
    /\ intAt = "none"
    /\ failedAt = "none"
    /\ raised = "none"
    /\ stack = <<>>
    /\ display = [c \in Channels |-> <<>>]
    /\ timers = {}
    /\ window = "none"
    /\ events = 0

\* set_voltage(instrument, channel, voltage), the write accepted by the device
EchoSetVoltage == set_voltage /\ raised' = "none"

\* set_current(instrument, channel, current), the write accepted by the device
EchoSetCurrent == set_current /\ raised' = "none"

\* set_voltage or set_current called for another channel between the calls for chan
EchoOther ==
    /\ pc \in {"set_current", "read_voltage", "read_current_limit"}
    /\ Len(SelectSeq(log, LAMBDA o : o.ch # chan)) < MaxOther
    /\ \E c \in Channels \ {chan}, x \in EchoValues :
          \E text \in {VoltCmd(x, c), CurrCmd(x, c)} :
             log' = Append(log, Op("write", text, iter, c, "ok", ""))
    /\ nsent' = nsent + 1
    /\ raised' = "none"
    /\ UNCHANGED <<prog, pc, session, inst, console, closeCalls, closed, exitCode, failedAt>>
    /\ UNCHANGED cliVars
    /\ UNCHANGED guiVars

\* read_voltage(instrument, channel): the device answers; float(response.strip())
EchoReadVoltage ==
    /\ prog = "cli" /\ pc = "read_voltage"
    /\ LET r == DeviceQuery(DeviceAfter(log), CliMeasVolt(chan))
       IN  /\ log' = Append(log, Op("query", CliMeasVolt(chan), iter, chan, "ok", r))
           /\ nsent' = nsent + 1
           /\ IF IsFloatText(Strip(r))
              THEN /\ measured_v' = ParseFloat(Strip(r))
                   /\ pc' = "read_current_limit"
                   /\ UNCHANGED <<console, exitCode, session>>
                   /\ raised' = "none"
              ELSE /\ CliRaise("ValueError", TRUE, console)
                   /\ UNCHANGED measured_v
    /\ UNCHANGED <<prog, inst, chan, volt, curr, limit_c, iter, intAt,
                   closeCalls, closed, failedAt>>
    /\ UNCHANGED guiVars

\* read_current_limit(instrument, channel): the device answers; float(response.strip())
EchoReadLimit ==
    /\ prog = "cli" /\ pc = "read_current_limit"
    /\ LET r == DeviceQuery(DeviceAfter(log), CurrLimitQuery(chan))
       IN  /\ log' = Append(log, Op("query", CurrLimitQuery(chan), iter, chan, "ok", r))
           /\ nsent' = nsent + 1
           /\ IF IsFloatText(Strip(r))
              THEN /\ limit_c' = ParseFloat(Strip(r))
                   /\ pc' = "report"
                   /\ UNCHANGED <<console, exitCode, session>>
                   /\ raised' = "none"
              ELSE /\ CliRaise("ValueError", TRUE, console)
                   /\ UNCHANGED limit_c
    /\ UNCHANGED <<prog, inst, chan, volt, curr, measured_v, iter, intAt,
                   closeCalls, closed, failedAt>>
    /\ UNCHANGED guiVars

NextEcho ==
    \/ EchoSetVoltage
    \/ EchoSetCurrent
    \/ EchoOther
    \/ EchoReadVoltage
    \/ EchoReadLimit

SpecEcho == InitEcho /\ [][NextEcho]_vars

----------------------------------------------------------------------------
(* The GUI running without end.  The history kept for the safety properties *)
(* (log, console, nsent, events, raised, the numbering of the handlers) is   *)
(* dropped each time control is back in an event loop, so that a run of any  *)
(* length stays within finitely many states; the program's own state (the    *)
(* session, the handler frames, the labels, the timers, the window) is kept. *)

\* no history is held
Tidy ==
    /\ log = <<>> /\ nsent = 0 /\ raised = "none"
    /\ events = Len(stack)
    /\ \A k \in 1..Len(stack) : stack[k].hid = k
    /\ stack = <<>> => console = <<>>

\* the history is dropped
LiveForget ==
    /\ prog = "gui" /\ pc = "exec"
    /\ CanDispatch
    /\ ~Tidy
    /\ log' = <<>> /\ nsent' = 0 /\ raised' = "none"
    /\ events' = Len(stack)
    /\ stack' = [k \in 1..Len(stack) |-> [stack[k] EXCEPT !.hid = k]]
    /\ console' = IF stack = <<>> THEN <<>> ELSE console
    /\ UNCHANGED <<prog, pc, session, inst, closeCalls, closed, exitCode, failedAt,
                   display, timers, window>>
    /\ UNCHANGED cliVars

LiveTick == Tidy /\ GuiTimerTick
LiveSetClicked == Tidy /\ GuiSetClicked
LiveDialogDismiss == Tidy /\ GuiDialogDismiss
LiveClose == Tidy /\ closeEvent
LiveQuit == Tidy /\ GuiQuit

\* the timer of panel i fires and its update_readings starts
TickOf(i) == LiveTick /\ stack'[Len(stack')].ch = i

InitLive == Init /\ prog = "gui"

NextLive ==
    \/ GuiMain
    \/ GuiResourceManager
    \/ GuiOpenResource
    \/ GuiSetTimeout
    \/ GuiSetTermination
    \/ GuiPanels
    \/ LiveTick
    \/ LiveSetClicked
    \/ GuiIssue
    \/ GuiComplete
    \/ LiveDialogDismiss
    \/ LiveClose
    \/ LiveQuit
    \/ LiveForget

\* Each QTimer expires every TIMER_MS and Qt delivers expired timers in the order of
\* their expiry whenever control is in an event loop: no timer is passed over for
\* ever (strong fairness per panel).  A bus call returns or times out after
\* TIMEOUT_MS (weak fairness of the handler's steps).  The operator owes nothing:
\* clicks, the dismissal of a dialog and the closing of the window may never happen.
SpecLive ==
    /\ InitLive /\ [][NextLive]_vars
    /\ \A i \in Channels : SF_vars(TickOf(i))
    /\ WF_vars(GuiIssue)
    /\ WF_vars(GuiComplete)
    /\ WF_vars(LiveForget)

----------------------------------------------------------------------------
(* The claims *)

Last(q) == q[Len(q)]

\* the positions of prompt_and_set_channel's loop
LoopPcs == {"prompt_channel", "prompt_voltage", "prompt_current", "set_voltage",
            "set_current", "read_voltage", "read_current_limit", "report"}

\* the steps of startup that build the session
SetupPcs == {"open", "timeout", "term", "gui_open", "gui_timeout", "gui_term"}

\* the session as startup leaves it
SessionReady == session = [state |-> "open", timeout |-> 5000, term |-> "\n"]

\* C1: in the CLI, a session whose resource was opened has been closed exactly once
\* when the process has ended, however the run went (stated as the claim states it;
\* the code breaks it when setup fails after open_resource)
C1_OpenedClosedOnce ==
    (prog = "cli" /\ pc = "done" /\ session.state # "none") => closed = 1

\* C2: in the GUI at most one bus operation is outstanding at any time, a handler
\* that has begun is never overtaken by another while it is in its bus sequence, and
\* the operations of one handler are never interleaved with those of another
C2_BusSerialized ==
    prog = "gui" =>
       /\ Cardinality({i \in 1..Len(log) : log[i].res = "pending"}) <= 1
       /\ Cardinality({i \in 1..Len(stack) : stack[i].wait}) <= 1
       /\ \A i \in 1..Len(stack) - 1 : stack[i].pc = "dialog" /\ ~stack[i].wait
       /\ \A i, j, k \in 1..Len(log) :
             (i < j /\ j < k /\ log[i].by = log[k].by) => log[j].by = log[i].by

\* a poll of one panel runs inside the error dialog of another panel's failed apply,
\* with its third query outstanding
C2_Witness ==
    /\ prog = "gui"
    /\ Len(stack) = 2
    /\ stack[1].ch # stack[2].ch
    /\ stack[2].pc = "q_limit" /\ stack[2].wait
    /\ Len(log) >= 4

\* C3: every command or query carries the channel of the code that issued it: in the
\* CLI the channel entered in the iteration, in the GUI the channel of the panel
C3_ChannelAddressed ==
    \A i \in 1..Len(log) :
       log[i].ch # 0 =>
          /\ log[i].ch \in 1..4
          /\ AddressOf(log[i].text) = IntStr(log[i].ch)
          /\ prog = "cli" => log[i].ch = chan
          /\ prog = "gui" =>
                \A j \in 1..Len(stack) :
                   stack[j].hid = log[i].by => stack[j].ch = log[i].ch

\* panel 3 has applied its settings and polled: five operations, all for channel 3
C3_Witness ==
    /\ prog = "gui"
    /\ Len(log) = 5
    /\ \A i \in 1..5 : log[i].ch = 3 /\ log[i].res = "ok"
    /\ stack = <<>>

\* C4: while the interaction loop runs the session is open and configured as startup
\* left it, whatever failed, and no step but a startup step or the shutdown close
\* changes the session
C4_SessionKept ==
    /\ [](/\ (prog = "cli" /\ pc \in LoopPcs) => SessionReady
          /\ (prog = "gui" /\ pc = "exec" /\ window = "shown") => SessionReady)
    /\ [][session' # session =>
             \/ pc \in SetupPcs
             \/ prog = "cli" /\ pc = "finally"
             \/ prog = "gui" /\ window = "shown" /\ window' = "closed"]_vars

\* the first iteration's voltage query failed (three operations, no fourth), and the
\* second iteration has sent its first command on the same open session
C4_Witness ==
    /\ prog = "cli"
    /\ iter = 2
    /\ nsent = 5
    /\ Len(log) = 1 /\ log[1].res = "ok"
    /\ SessionReady

\* C5: a write, query or parse that fails during normal operation is caught and
\* reported, and the program goes on: the CLI is back at the prompt, the GUI keeps
\* running with its four timers; the process does not end
C5_FailuresCaught ==
    [][/\ (prog = "cli" /\ pc \in LoopPcs /\ raised' \notin {"none", "KeyboardInterrupt"}) =>
             /\ pc' = "prompt_channel"
             /\ exitCode' = -1
             /\ console' # <<>>
             /\ Last(console')[1] \in {"Invalid input. Please enter numeric values.",
                                        "VISA IO Error: ", "Unexpected error: "}
       /\ (prog = "gui" /\ pc = "exec" /\ raised' # "none") =>
             /\ pc' = "exec"
             /\ exitCode' = -1
             /\ timers' = 1..4
             /\ \/ display'[Top.ch] = <<"Read error:\n", raised'>>
                \/ /\ console' # <<>>
                   /\ Last(console')[1] = "Error"
                   /\ display' = display]_vars

\* a bus failure in the CLI loop was reported and the loop is at the prompt again
C5_Witness ==
    /\ prog = "cli"
    /\ pc = "prompt_channel"
    /\ raised = "VisaIOError"
    /\ Len(log) = 3 /\ log[3].res = "VisaIOError"

C7_FourCommandsInOrder ==
    (/\ prog = "cli"
     /\ \/ pc = "report"
        \/ console # <<>> /\ Last(console)[1] = "  Measured Current Limit: ") =>
       /\ Len(log) = 4
       /\ \A i \in 1..4 : log[i].by = iter /\ log[i].res = "ok"
       /\ <<log[1].kind, log[2].kind, log[3].kind, log[4].kind>> =
             <<"write", "write", "query", "query">>
       /\ log[1].text = <<"VOLT ", FloatStr(volt), ", (@", IntStr(chan), ")">>
       /\ log[2].text = <<"CURR ", FloatStr(curr), ", (@", IntStr(chan), ")">>
       /\ log[3].text = <<"MEASure:VOLTage? (@", IntStr(chan), ")">>
       /\ log[4].text = <<"CURR? (@", IntStr(chan), ")">>
       /\ (chan = 2 /\ volt = 6000 /\ curr = 1000) =>
             /\ log[1].text = <<"VOLT ", "6.0", ", (@", "2", ")">>
             /\ log[2].text = <<"CURR ", "1.0", ", (@", "2", ")">>
       /\ pc \in {"report", "prompt_channel"}

\* channel 2 was set to 6 V and 1 A and read back; the loop prompts again
C7_Witness ==
    /\ prog = "cli"
    /\ pc = "prompt_channel"
    /\ console # <<>> /\ Last(console)[1] = "  Measured Current Limit: "
    /\ chan = 2 /\ volt = 6000 /\ curr = 1000
    /\ iter = 1

\* C8: an iteration of the CLI loop that ends with the parse-failure report
\* ("Invalid input...") has sent no write and no query (stated as the claim states
\* it; the code breaks it when a response of the instrument is not a number)
C8_InvalidInputNoContact ==
    (/\ prog = "cli"
     /\ console # <<>>
     /\ Last(console) = <<"Invalid input. Please enter numeric values.">>) =>
       log = <<>>

C10_StartupFailureAborts ==
    failedAt # "none" =>
       /\ pc \in {"finally", "done"}
       /\ iter = 0
       /\ events = 0 /\ timers = {} /\ window = "none" /\ stack = <<>>
       /\ nsent <= 1
       /\ \A i \in 1..Len(log) : log[i].ch = 0 /\ log[i].text = <<"*IDN?">>
       /\ prog = "gui" => (pc = "done" /\ exitCode = 1)

\* the CLI's identification query timed out and the process has ended
C10_Witness ==
    /\ prog = "cli"
    /\ failedAt = "idn"
    /\ pc = "done"
    /\ nsent = 1
    /\ iter = 0

\* the commands of handler hid, in the order they were issued
By(q, hid) == SelectSeq(q, LAMBDA o : o.by = hid)

\* C11: the first command sent on a session is the identification query '*IDN?'
\* (stated as the claim states it, for the CLI and the GUI alike; the GUI's
\* constructor never sends it): as long as the log holds every command sent so far,
\* its first entry is '*IDN?'
C11_IdentifiedFirst ==
    (nsent >= 1 /\ Len(log) = nsent) => log[1].text = <<"*IDN?">>

\* C12: a polling tick of channel i that ends without a failure has issued exactly
\* three queries, MEAS:VOLT?, MEAS:CURR?, CURR?, in this order and all addressed to
\* channel i, and at its end channel i's label shows the three values answered
C12_TickThreeQueries ==
    [][(/\ prog = "gui" /\ stack # <<>> /\ stack' = Pop
        /\ Top.kind = "tick" /\ raised' = "none") =>
          LET mine == By(log', Top.hid)
              i == IntStr(Top.ch)
          IN  /\ Len(mine) = 3
              /\ mine = SubSeq(log', Len(log') - 2, Len(log'))
              /\ \A k \in 1..3 : /\ mine[k].kind = "query"
                                 /\ mine[k].res = "ok"
                                 /\ mine[k].ch = Top.ch
              /\ mine[1].text = <<"MEAS:VOLT? (@", i, ")">>
              /\ mine[2].text = <<"MEAS:CURR? (@", i, ")">>
              /\ mine[3].text = <<"CURR? (@", i, ")">>
              /\ Top.ch \in 1..4 /\ i \in {"1", "2", "3", "4"}
              /\ display'[Top.ch] =
                    <<"Measured:\n", Fixed7_3(ParseFloat(Strip(mine[1].resp))), " V\n",
                      Fixed7_3(ParseFloat(Strip(mine[2].resp))), " A\n\nLimit:\n",
                      Fixed7_3(ParseFloat(Strip(mine[3].resp))), " A">>
              /\ (\A k \in 1..3 : mine[k].resp = "3.000\r") =>
                    display'[Top.ch] = <<"Measured:\n", "  3.000", " V\n", "  3.000",
                                         " A\n\nLimit:\n", "  3.000", " A">>]_vars

\* a tick of channel 3 has run to its end: three answered queries, the label updated
C12_Witness ==
    /\ prog = "gui" /\ pc = "exec"
    /\ stack = <<>> /\ raised = "none"
    /\ Len(log) = 3
    /\ log[1].text = <<"MEAS:VOLT? (@", "3", ")">>
    /\ log[3].res = "ok"
    /\ display[3] # InitialText
    /\ display[3][1] = "Measured:\n"

\* C13: an apply action on channel i whose two writes succeeded has sent VOLT then
\* CURR to channel i and goes straight on to one poll cycle of channel i
\* (MEAS:VOLT?, MEAS:CURR?, CURR?): while it polls no other handler runs and the bus
\* has seen no command but its own, and when it ends without a failure it has sent
\* exactly these five commands
C13_ApplyThenPoll ==
    /\ [](( /\ prog = "gui" /\ stack # <<>>
            /\ stack[1].kind = "apply"
            /\ stack[1].pc \in {"q_volt", "q_curr", "q_limit"}) =>
              LET f == stack[1]
                  i == IntStr(f.ch)
                  expected == << <<"VOLT ", FloatStr(f.voltage), ", (@", i, ")">>,
                                 <<"CURR ", FloatStr(f.current), ", (@", i, ")">>,
                                 <<"MEAS:VOLT? (@", i, ")">>,
                                 <<"MEAS:CURR? (@", i, ")">>,
                                 <<"CURR? (@", i, ")">> >>
              IN  /\ Len(stack) = 1
                  /\ Len(log) >= 2 /\ Len(log) <= 5
                  /\ \A k \in 1..Len(log) :
                        /\ log[k].by = f.hid
                        /\ log[k].ch = f.ch
                        /\ log[k].text = expected[k]
                        /\ log[k].kind = IF k <= 2 THEN "write" ELSE "query"
                  /\ log[1].res = "ok" /\ log[2].res = "ok"
                  /\ Len(log) = (CASE f.pc = "q_volt" -> 2
                                   [] f.pc = "q_curr" -> 3
                                   [] f.pc = "q_limit" -> 4) + (IF f.wait THEN 1 ELSE 0))
    /\ [][(/\ prog = "gui" /\ stack # <<>> /\ stack' = Pop
           /\ Top.kind = "apply" /\ Top.pc # "dialog" /\ raised' = "none") =>
             /\ Len(log') = 5
             /\ \A k \in 1..5 : log'[k].by = Top.hid /\ log'[k].res = "ok"
             /\ <<log'[1].kind, log'[2].kind, log'[3].kind, log'[4].kind, log'[5].kind>> =
                   <<"write", "write", "query", "query", "query">>
             /\ log'[1].text[1] = "VOLT " /\ log'[2].text[1] = "CURR "
             /\ display'[Top.ch][1] = "Measured:\n"]_vars

\* 6 V and 1 A were applied to channel 2 and read back: five answered commands
C13_Witness ==
    /\ prog = "gui" /\ pc = "exec"
    /\ stack = <<>> /\ raised = "none"
    /\ Len(log) = 5
    /\ log[1].text = <<"VOLT ", "6.0", ", (@", "2", ")">>
    /\ log[2].text = <<"CURR ", "1.0", ", (@", "2", ")">>
    /\ log[5].text = <<"CURR? (@", "2", ")">>
    /\ log[5].res = "ok"
    /\ display[2][1] = "Measured:\n"

\* a channel command that failed: the call raised, or the answer could not be parsed
Failed(o) ==
    /\ o.ch # 0
    /\ \/ o.res \notin {"ok", "pending"}
       \/ o.kind = "query" /\ o.res = "ok" /\ ~IsFloatText(Strip(o.resp))

\* the error reports on the console: the loop's three messages, the GUI's dialog
ErrorReports ==
    SelectSeq(console, LAMBDA m : m[1] \in {"Invalid input. Please enter numeric values.",
                                             "VISA IO Error: ", "Unexpected error: ",
                                             "Error"})

\* C14: nothing is retried: a command that failed is the last command of its CLI
\* iteration, GUI tick or GUI apply (it is not sent again and nothing follows it
\* from the same handler), and its failure is reported once: one message of the CLI
\* loop, one dialog of the apply, the read-error label of the tick
C14_NoRetry ==
    /\ \A k \in 1..Len(log) :
          Failed(log[k]) => \A j \in (k + 1)..Len(log) : log[j].by # log[k].by
    /\ prog = "cli" =>
          LET bad == SelectSeq(log, LAMBDA o : Failed(o) /\ o.res # "KeyboardInterrupt")
          IN  /\ Len(bad) <= 1
              /\ Len(bad) = 1 =>
                    /\ Len(ErrorReports) = 1
                    /\ pc \in {"prompt_channel", "finally", "done"}
    /\ prog = "gui" =>
          /\ Len(ErrorReports) = Len(SelectSeq(log, LAMBDA o : Failed(o) /\ o.kind = "write"))
          /\ (log # <<>> /\ Failed(Last(log)) /\ Last(log).kind = "query") =>
                /\ display[Last(log).ch] =
                      <<"Read error:\n", IF Last(log).res = "ok" THEN "ValueError"
                                         ELSE Last(log).res>>
                /\ \A i \in 1..Len(stack) : stack[i].hid # Last(log).by

\* the second query of a tick timed out: the label says so and the tick is over
C14_Witness ==
    /\ prog = "gui" /\ pc = "exec"
    /\ stack = <<>>
    /\ Len(log) = 2
    /\ log[2].kind = "query" /\ log[2].res = "VisaIOError"
    /\ display[log[2].ch] = <<"Read error:\n", "VisaIOError">>

\* C15: against the echo device, after set_voltage(c, v) and set_current(c, a) the
\* call read_voltage(c) returns v and read_current_limit(c) returns a, for every
\* channel and every v, a of EchoValues, whatever was written to other channels in
\* between; no call of the sequence fails
C15_EchoReadsBack ==
    /\ pc \in {"set_voltage", "set_current", "read_voltage", "read_current_limit", "report"}
    /\ raised = "none"
    /\ pc \in {"read_current_limit", "report"} => measured_v = volt
    /\ pc = "report" => limit_c = curr
    /\ pc = "report" =>
          /\ DeviceAfter(log).vset[chan] = volt
          /\ DeviceAfter(log).ilim[chan] = curr

\* 6 V and 1 A set on channel 4 and read back, while channel 2 was written in between
C15_Witness ==
    /\ pc = "report"
    /\ chan = 4 /\ volt = 6000 /\ curr = 1000
    /\ measured_v = 6000 /\ limit_c = 1000
    /\ Len(log) = 6
    /\ log[3].ch = 2 /\ log[3].text[1] = "VOLT " /\ log[3].text[2] = "1.0"
    /\ log[5].ch = 2 /\ log[5].text[1] = "CURR " /\ log[5].text[2] = "6.0"

\* C16: a close call that fails at shutdown is swallowed: the step prints nothing
\* and shows nothing, raises nothing, and shutdown goes on (the CLI ends with status
\* 0, the GUI's window is closed); what the console had reported before, the
\* interrupt or the startup error, is still its last line when the CLI has ended
C16_CloseFailureSilent ==
    /\ [][(/\ closeCalls' = closeCalls + 1
           /\ closed' = closed
           /\ session.state = "open") =>
             /\ console' = console
             /\ raised' = "none"
             /\ session' = session
             /\ prog = "cli" => (pc' = "done" /\ exitCode' = 0)
             /\ prog = "gui" => (window' = "closed" /\ display' = display)]_vars
    /\ [][(prog = "cli" /\ pc = "finally" /\ inst = "unbound") =>
             /\ console' = console
             /\ pc' = "done" /\ exitCode' = 0]_vars
    /\ []((prog = "cli" /\ pc = "done" /\ closed = 0) =>
             /\ exitCode = 0
             /\ failedAt # "none" => Last(console)[1] = "Error: "
             /\ intAt # "none" => Last(console) = <<"Exiting on user interrupt.">>)

\* Ctrl-C ended the loop, the close call failed, the CLI has ended all the same
C16_Witness ==
    /\ prog = "cli" /\ pc = "done"
    /\ closeCalls = 1 /\ closed = 0
    /\ session.state = "open"
    /\ exitCode = 0
    /\ Last(console) = <<"Exiting on user interrupt.">>

\* a query of a polling tick of channel i is on the bus
Polling(i) == stack # <<>> /\ Top.kind = "tick" /\ Top.ch = i /\ Top.wait

\* C17: as long as the window is open every channel is polled again and again:
\* whatever failed before, on this channel or another, and even while an error
\* dialog is open, a later tick of each of the four channels issues its queries
C17_PollingNeverStops ==
    \A i \in Channels : []<>(window # "shown" \/ Polling(i))

\* channel 1's label shows a read error and a tick of channel 4 is at its third query
C17_Witness ==
    /\ prog = "gui" /\ window = "shown"
    /\ display[1][1] = "Read error:\n"
    /\ Polling(4) /\ Top.pc = "q_limit"
    /\ timers = 1..4

\* C18: no write or query is issued on a session that has been closed (stated as
\* the claim states it; psu_gui.py leaves its timers running when closeEvent has
\* closed the instrument): no command of the log was called on a closed session,
\* and the CLI has ended when its session is closed
C18_NoCommandAfterClose ==
    /\ \A k \in 1..Len(log) : log[k].res # "InvalidSession"
    /\ (prog = "cli" /\ session.state = "closed") => pc = "done"

\* the handlers that are still running
Running == {stack[k].hid : k \in 1..Len(stack)}

\* C19, as the claim states it: once a tick or an apply action of channel i is over,
\* channel i's label shows measurements or the read-error text
C19_MeasuredOrReadError ==
    prog = "gui" =>
       \A k \in 1..Len(log) :
          log[k].by \notin Running => display[log[k].ch][1] \in {"Measured:\n", "Read error:\n"}

\* C19, amended: a handler of channel i changes no label but channel i's, and changes
\* it only at the end of its poll cycle: to the three values answered when all three
\* queries succeeded and parsed, to the read-error text otherwise; an apply action
\* whose write failed runs no poll cycle and leaves every label as it was
C19_OnlyOwnDisplay ==
    /\ [][(pc = "exec" /\ display' # display) =>
             /\ prog = "gui" /\ stack # <<>> /\ stack' = Pop
             /\ Top.pc \in {"q_volt", "q_curr", "q_limit"}
             /\ \A j \in Channels \ {Top.ch} : display'[j] = display[j]]_vars
    /\ [][(/\ prog = "gui" /\ pc = "exec" /\ stack # <<>> /\ stack' = Pop
           /\ Top.pc \in {"q_volt", "q_curr", "q_limit"}) =>
             LET mine == SelectSeq(log', LAMBDA o : o.by = Top.hid /\ o.kind = "query")
                 good == /\ Len(mine) = 3
                         /\ \A k \in 1..3 : mine[k].res = "ok" /\ IsFloatText(Strip(mine[k].resp))
             IN  IF good
                 THEN display'[Top.ch] =
                         <<"Measured:\n", Fixed7_3(ParseFloat(Strip(mine[1].resp))), " V\n",
                           Fixed7_3(ParseFloat(Strip(mine[2].resp))), " A\n\nLimit:\n",
                           Fixed7_3(ParseFloat(Strip(mine[3].resp))), " A">>
                 ELSE /\ raised' \in {"VisaIOError", "ValueError", "InvalidSession"}
                      /\ display'[Top.ch] = <<"Read error:\n", raised'>>]_vars
    /\ [][(/\ prog = "gui" /\ pc = "exec" /\ stack # <<>>
           /\ Top.pc \in {"w_volt", "w_curr", "dialog"}) => display' = display]_vars
    /\ [](prog = "gui" =>
             \A k \in 1..Len(log) :
                (log[k].by \notin Running /\ log[k].kind = "query") =>
                   display[log[k].ch][1] \in {"Measured:\n", "Read error:\n"})

\* an apply action of channel 2 ended with a failed poll: channel 2's label says so,
\* the other three labels are as they were
C19_Witness ==
    /\ prog = "gui" /\ pc = "exec"
    /\ stack = <<>>
    /\ Len(log) = 4
    /\ log[1].kind = "write" /\ log[1].ch = 2
    /\ log[4].res = "VisaIOError"
    /\ display[2] = <<"Read error:\n", "VisaIOError">>
    /\ \A j \in {1, 3, 4} : display[j] = InitialText

====
